---------------------------- MODULE Spec2Model ----------------------------
(***************************************************************************)
(* Retirement Portfolio Forecasting Tool (task-2/src/App.js).              *)
(*                                                                         *)
(* The component keeps five pieces of React state (inputs, results,        *)
(* scenarios, chartData, errors).  handleInputChange replaces one field of *)
(* inputs; the effect on [inputs] then runs calculateResults, which        *)
(* validates the inputs and either clears or recomputes the derived state. *)
(*                                                                         *)
(* Numbers.  The inputs are JavaScript numbers produced by parseFloat.     *)
(* An input is held here as an integer count of hundredths (7% is 700,     *)
(* -20.01 is -2001, 1.5 years is 150).  Every value the arithmetic of      *)
(* calculateFutureValue / calculateMonthlyIncome produces is a decimal     *)
(* floating-point number [k, m, e]:                                        *)
(*    k = "num" : the number m * 10^e, with m = 0 /\ e = 0 or              *)
(*                10^7 <= |m| < 10^8 (eight significant digits, results    *)
(*                truncated toward zero);                                  *)
(*    k = "inf" : +Infinity (m = 1) or -Infinity (m = -1);                 *)
(*    k = "nan" : NaN.                                                     *)
(* The special values follow IEEE 754 as JavaScript does: x/0 is an        *)
(* infinity, 0/0 is NaN, NaN is absorbing, Math.pow(x, 0) is 1.  The sign  *)
(* of zero is not kept.  A double carries about sixteen digits where this  *)
(* arithmetic carries eight: a future value over 30 years agrees with the  *)
(* double to about five significant digits, and which results are NaN,     *)
(* infinite, zero or negative does not depend on the precision.            *)
(***************************************************************************)
EXTENDS Integers, Sequences, FiniteSets

(***************************************************************************)
(* Decimal floating point                                                  *)
(***************************************************************************)
Abs(i) == IF i < 0 THEN 0 - i ELSE i

Sgn(i) == IF i < 0 THEN 0 - 1 ELSE IF i = 0 THEN 0 ELSE 1

NaN == [k |-> "nan", m |-> 0, e |-> 0]

Inf(s) == [k |-> "inf", m |-> s, e |-> 0]

Zero == [k |-> "num", m |-> 0, e |-> 0]

\* The number s * a * 10^e (a >= 0) brought to eight significant digits;
\* beyond the exponent range of a double it is an infinity or zero.
RECURSIVE NormAbs(_, _, _)
NormAbs(s, a, e) ==
    IF a = 0 THEN Zero
    ELSE IF a >= 100000000 THEN NormAbs(s, a \div 10, e + 1)
    ELSE IF a < 10000000 THEN NormAbs(s, a * 10, e - 1)
    ELSE IF e > 300 THEN Inf(s)
    ELSE IF e < 0 - 331 THEN Zero
    ELSE [k |-> "num", m |-> s * a, e |-> e]

Norm(i, e) == NormAbs(Sgn(i), Abs(i), e)

\* The JavaScript number of an input held in hundredths.
Num(h) == Norm(h, 0 - 2)

\* An integer literal of the source.
Lit(i) == Norm(i, 0)

One == Lit(1)

IsZero(x) == x.k = "num" /\ x.m = 0

Neg(x) == IF x.k = "nan" THEN x ELSE [x EXCEPT !.m = 0 - x.m]

\* x * y
Mul(x, y) ==
    IF x.k = "nan" \/ y.k = "nan" THEN NaN
    ELSE IF x.k = "inf" \/ y.k = "inf"
         THEN IF IsZero(x) \/ IsZero(y) THEN NaN ELSE Inf(Sgn(x.m) * Sgn(y.m))
    ELSE IF x.m = 0 \/ y.m = 0 THEN Zero
    ELSE LET a  == Abs(x.m)
             b  == Abs(y.m)
             a1 == a \div 10000
             a0 == a % 10000
             b1 == b \div 10000
             b0 == b % 10000
             \* the leading digits of a * b: floor-like a * b / 10^7
             p  == (a1 * b1) * 10
                   + ((a1 * b0 + a0 * b1) * 10 + (a0 * b0) \div 1000) \div 10000
         IN  NormAbs(Sgn(x.m) * Sgn(y.m), p, x.e + y.e + 7)

\* The digits of r / b continued for n more places after the quotient q.
RECURSIVE LongDiv(_, _, _, _)
LongDiv(q, r, b, n) ==
    IF n = 0 THEN q
    ELSE LongDiv(q * 10 + (r * 10) \div b, (r * 10) % b, b, n - 1)

\* x / y
Div(x, y) ==
    IF x.k = "nan" \/ y.k = "nan" THEN NaN
    ELSE IF x.k = "inf"
         THEN IF y.k = "inf" THEN NaN
              ELSE Inf(x.m * (IF y.m < 0 THEN 0 - 1 ELSE 1))
    ELSE IF y.k = "inf" THEN Zero
    ELSE IF y.m = 0 THEN (IF x.m = 0 THEN NaN ELSE Inf(Sgn(x.m)))
    ELSE IF x.m = 0 THEN Zero
    ELSE LET a == Abs(x.m)
             b == Abs(y.m)
         IN  NormAbs(Sgn(x.m) * Sgn(y.m),
                     LongDiv(a \div b, a % b, b, 8), x.e - y.e - 8)

\* 10^n for 0 <= n <= 8
RECURSIVE Pow10(_)
Pow10(n) == IF n = 0 THEN 1 ELSE 10 * Pow10(n - 1)

\* x + y
Add(x, y) ==
    IF x.k = "nan" \/ y.k = "nan" THEN NaN
    ELSE IF x.k = "inf"
         THEN IF y.k = "inf" /\ y.m # x.m THEN NaN ELSE x
    ELSE IF y.k = "inf" THEN y
    ELSE IF x.m = 0 THEN y
    ELSE IF y.m = 0 THEN x
    ELSE LET hi == IF x.e >= y.e THEN x ELSE y
             lo == IF x.e >= y.e THEN y ELSE x
             d  == hi.e - lo.e
         IN  IF d > 8 THEN hi
             ELSE LET s == hi.m + Sgn(lo.m) * (Abs(lo.m) \div Pow10(d))
                  IN  Norm(s, hi.e)

\* x - y
Sub(x, y) == Add(x, Neg(y))

\* Math.pow(x, n) for an integer n >= 0
RECURSIVE Pow(_, _)
Pow(x, n) ==
    IF n = 0 THEN One
    ELSE IF n % 2 = 0 THEN LET h == Pow(x, n \div 2) IN Mul(h, h)
    ELSE Mul(x, Pow(x, n - 1))

\* Math.round(x): the nearest integer, halves toward +Infinity
Round(x) ==
    IF x.k # "num" \/ x.e >= 0 THEN x
    ELSE IF x.e < 0 - 8 THEN Zero
    ELSE LET p == Pow10(0 - x.e)
             a == Abs(x.m)
             q == a \div p
             r == a % p
             up == IF x.m > 0 THEN 2 * r >= p ELSE 2 * r > p
         IN  Norm(Sgn(x.m) * (IF up THEN q + 1 ELSE q), 0)

(***************************************************************************)
(* The calculations of App.js                                              *)
(***************************************************************************)
\* Fault variant: the future value of the principal alone, without the
\* contributions.
calculateFutureValue_PrincipalOnly(principal, monthlyContrib, annualRate, years) ==
    LET r == Div(Num(annualRate), Lit(100))
        n == Lit(12)
        nt == (12 * years) \div 100
    IN  Mul(Num(principal), Pow(Add(One, Div(r, n)), nt))

\* calculateFutureValue: the arguments are numbers held in hundredths; the
\* exponent n*t is a whole number for every years value the model uses.
calculateFutureValue(principal, monthlyContrib, annualRate, years) ==
    LET r == Div(Num(annualRate), Lit(100))
        n == Lit(12)
        t == years
        nt == (12 * t) \div 100
        fvPrincipal == Mul(Num(principal), Pow(Add(One, Div(r, n)), nt))
        monthlyRate == Div(r, n)
        fvContributions ==
            Div(Mul(Num(monthlyContrib), Sub(Pow(Add(One, monthlyRate), nt), One)),
                monthlyRate)
    IN  Add(fvPrincipal, fvContributions)

\* calculateMonthlyIncome: 20-year annuity at 4% a year
calculateMonthlyIncome(retirementBalance) ==
    LET annualRate == Num(4)
        monthlyRate == Div(annualRate, Lit(12))
        totalPayments == 20 * 12
    IN  Div(Mul(retirementBalance,
                Mul(monthlyRate, Pow(Add(One, monthlyRate), totalPayments))),
            Sub(Pow(Add(One, monthlyRate), totalPayments), One))

(***************************************************************************)
(* Inputs                                                                  *)
(***************************************************************************)
\* The largest percentage and the largest number of years the user types;
\* both lie beyond the ranges validateInputs accepts.
MaxReturnTyped == 51

MaxYearsTyped == 71

Fields == {"currentBalance", "monthlyContribution", "expectedReturn",
           "yearsToRetirement"}

\* What e.target.value can be: the empty text of an emptied field, or the
\* decimal text of a number, held as that number in hundredths.
EmptyText == [text |-> "", num |-> 0]

NumberText(h) == [text |-> "number", num |-> h]

TypedNumbers(field) ==
    CASE field = "currentBalance" -> {0 - 100, 0, 5000000}
      [] field = "monthlyContribution" -> {0 - 100, 0, 100000}
      [] field = "expectedReturn" ->
            {0 - 2001, 0 - 2000, 0 - 200, 0, 250, 700, 5000, 100 * MaxReturnTyped}
      [] field = "yearsToRetirement" ->
            {0, 100, 150, 4000, 7000, 100 * MaxYearsTyped}

Typed(field) == {EmptyText} \cup {NumberText(h) : h \in TypedNumbers(field)}

\* parseFloat(value): NaN for a text that holds no number
parseFloat(value) ==
    IF value.text = "" THEN [nan |-> TRUE, num |-> 0]
    ELSE [nan |-> FALSE, num |-> value.num]

\* x || 0 for the result of parseFloat: NaN and 0 are falsy
OrZero(x) == IF x.nan \/ x.num = 0 THEN 0 ELSE x.num

(***************************************************************************)
(* validateInputs                                                          *)
(***************************************************************************)
currentBalanceMsg == "Current balance must be a positive number"

monthlyContributionMsg == "Monthly contribution cannot be negative"

expectedReturnMsg == "Expected return should be between -20% and 50%"

yearsToRetirementMsg == "Years to retirement should be between 1 and 70"

\* !x for a number: true of 0 (NaN never reaches the state)
Falsy(x) == x = 0

\* Fault variant: validation stops at the first rule that fails.
ErrorFields_FirstOnly(inputValues) ==
    IF Falsy(inputValues.currentBalance) \/ inputValues.currentBalance < 0
        THEN {"currentBalance"}
    ELSE IF inputValues.monthlyContribution < 0
        THEN {"monthlyContribution"}
    ELSE IF \/ Falsy(inputValues.expectedReturn)
            \/ inputValues.expectedReturn < 0 - 2000
            \/ inputValues.expectedReturn > 5000
        THEN {"expectedReturn"}
    ELSE IF \/ Falsy(inputValues.yearsToRetirement)
            \/ inputValues.yearsToRetirement < 100
            \/ inputValues.yearsToRetirement > 7000
        THEN {"yearsToRetirement"}
    ELSE {}

\* The fields given an entry in newErrors, each by its own if statement.
ErrorFields(inputValues) ==
    (IF Falsy(inputValues.currentBalance) \/ inputValues.currentBalance < 0
        THEN {"currentBalance"} ELSE {})
    \cup
    (IF inputValues.monthlyContribution < 0
        THEN {"monthlyContribution"} ELSE {})
    \cup
    (IF \/ Falsy(inputValues.expectedReturn)
        \/ inputValues.expectedReturn < 0 - 2000
        \/ inputValues.expectedReturn > 5000
        THEN {"expectedReturn"} ELSE {})
    \cup
    (IF \/ Falsy(inputValues.yearsToRetirement)
        \/ inputValues.yearsToRetirement < 100
        \/ inputValues.yearsToRetirement > 7000
        THEN {"yearsToRetirement"} ELSE {})

Message(field) ==
    CASE field = "currentBalance" -> currentBalanceMsg
      [] field = "monthlyContribution" -> monthlyContributionMsg
      [] field = "expectedReturn" -> expectedReturnMsg
      [] field = "yearsToRetirement" -> yearsToRetirementMsg

\* The mapping returned: field name -> message
validateInputs(inputValues) ==
    [field \in ErrorFields(inputValues) |-> Message(field)]

(***************************************************************************)
(* State                                                                   *)
(***************************************************************************)
VARIABLES
    inputs,        \* useState: the four numbers of the form
    results,       \* useState: Null or [projected_value, monthly_income]
    scenarios,     \* useState: sequence of scenario records
    chartData,     \* useState: sequence of data points
    errors,        \* useState: field name -> message
    effectPending, \* the effect on [inputs] is scheduled and has not run
    fvCalls,       \* history: calls of calculateFutureValue made by the last run
    firstRun       \* history: the inputs and the derived state of the first run

vars == <<inputs, results, scenarios, chartData, errors, effectPending, fvCalls,
          firstRun>>

\* null, as a record that equals no result record
Null == [null |-> TRUE]

\* Math.max / Math.min on numbers held in hundredths
Max(a, b) == IF a >= b THEN a ELSE b

Min(a, b) == IF a <= b THEN a ELSE b

\* Math.round(x * 100) / 100
RoundCents(x) == Div(Round(Mul(x, Lit(100))), Lit(100))

\* baseResult of a run on valid inputs
BaseResult(inp) ==
    LET projectedValue ==
            calculateFutureValue(inp.currentBalance, inp.monthlyContribution,
                                 inp.expectedReturn, inp.yearsToRetirement)
        monthlyIncome == calculateMonthlyIncome(projectedValue)
    IN  [projected_value |-> RoundCents(projectedValue),
         monthly_income |-> RoundCents(monthlyIncome)]

\* Fault variant: the conservative rate with a floor of 3% instead of 1%.
conservativeRate_HighFloor(expectedReturn) ==
    IF expectedReturn - 200 >= 300 THEN expectedReturn - 200 ELSE 300

\* Fault variant: the conservative rate without its floor of 1%.
conservativeRate_NoFloor(expectedReturn) == expectedReturn - 200

conservativeRate(expectedReturn) == Max(expectedReturn - 200, 100)

optimisticRate(expectedReturn) == expectedReturn + 200

\* scenarioData as the array literal builds it
ScenarioLiteral(inp) ==
    LET fv(rate) == calculateFutureValue(inp.currentBalance, inp.monthlyContribution,
                                         rate, inp.yearsToRetirement)
    IN  << [name |-> "Conservative",
            rate |-> conservativeRate(inp.expectedReturn),
            projectedValue |-> fv(conservativeRate(inp.expectedReturn)),
            color |-> "#ef4444"],
           [name |-> "Base Case",
            rate |-> inp.expectedReturn,
            projectedValue |-> fv(inp.expectedReturn),
            color |-> "#3b82f6"],
           [name |-> "Optimistic",
            rate |-> optimisticRate(inp.expectedReturn),
            projectedValue |-> fv(optimisticRate(inp.expectedReturn)),
            color |-> "#10b981"] >>

\* scenario.monthlyIncome = calculateMonthlyIncome(scenario.projectedValue)
WithMonthlyIncome(scenario) ==
    [key \in DOMAIN scenario \cup {"monthlyIncome"} |->
        IF key = "monthlyIncome" THEN calculateMonthlyIncome(scenario.projectedValue)
        ELSE scenario[key]]

\* scenarioData after the forEach
ScenarioData(inp) ==
    LET literal == ScenarioLiteral(inp)
    IN  [i \in DOMAIN literal |-> WithMonthlyIncome(literal[i])]

\* Fault variant: the chart runs over all the years, without the limit of 40.
chartYears_NoCap(yearsToRetirement) == yearsToRetirement

chartYears(yearsToRetirement) == Min(yearsToRetirement, 4000)

\* The data point of one year: the year and one rounded balance per scenario
DataPoint(inp, scenarioData, year) ==
    [key \in {"year"} \cup {scenarioData[i].name : i \in DOMAIN scenarioData} |->
        IF key = "year" THEN year
        ELSE LET scenario == scenarioData[CHOOSE i \in DOMAIN scenarioData :
                                              scenarioData[i].name = key]
             IN  Round(calculateFutureValue(inp.currentBalance,
                                            inp.monthlyContribution,
                                            scenario.rate, 100 * year))]

\* The number of iterations of for (year = 0; year <= limit; year++)
LoopCount(limit) == IF limit < 0 THEN 0 ELSE limit \div 100 + 1

\* data: one point for year = 0, 1, ... while year <= chartYears
ChartData(inp, scenarioData) ==
    [i \in 1..LoopCount(chartYears(inp.yearsToRetirement)) |->
        DataPoint(inp, scenarioData, i - 1)]

(***************************************************************************)
(* Operations                                                              *)
(***************************************************************************)
Init ==
    /\ inputs = [currentBalance |-> 5000000, monthlyContribution |-> 100000,
                 expectedReturn |-> 700, yearsToRetirement |-> 3000]
    /\ results = Null
    /\ scenarios = <<>>
    /\ chartData = <<>>
    /\ errors = <<>>
    /\ effectPending = TRUE
    /\ fvCalls = 0
    /\ firstRun = <<>>

\* handleInputChange(field, value): an event is handled only once the effect
\* of the previous render has run.
handleInputChange(field, value) ==
    /\ ~effectPending
    /\ LET numericValue == OrZero(parseFloat(value))
       IN  inputs' = [inputs EXCEPT ![field] = numericValue]
    /\ effectPending' = TRUE
    /\ UNCHANGED <<results, scenarios, chartData, errors, fvCalls, firstRun>>

\* Fault variant: the error branch without setResults(null).
ClearDerived_KeepResults ==
    /\ results' = results
    /\ scenarios' = <<>>
    /\ chartData' = <<>>
    /\ fvCalls' = 0

\* The branch of calculateResults taken when validation reports errors
ClearDerived ==
    /\ results' = Null
    /\ scenarios' = <<>>
    /\ chartData' = <<>>
    /\ fvCalls' = 0

\* Fault variant: the valid branch without setChartData(data).
ComputeDerived_NoChart ==
    LET scenarioData == ScenarioData(inputs)
        data == ChartData(inputs, scenarioData)
    IN  /\ results' = BaseResult(inputs)
        /\ scenarios' = scenarioData
        /\ chartData' = chartData
        /\ fvCalls' = 1 + 2 + Len(scenarioData) * Len(data)

\* Fault variant: the chart series is extended instead of replaced.
ComputeDerived_Append ==
    LET scenarioData == ScenarioData(inputs)
        data == ChartData(inputs, scenarioData)
    IN  /\ results' = BaseResult(inputs)
        /\ scenarios' = scenarioData
        /\ chartData' = chartData \o data
        /\ fvCalls' = 1 + 2 + Len(scenarioData) * Len(data)

\* The rest of calculateResults, run when validation reports nothing
ComputeDerived ==
    LET scenarioData == ScenarioData(inputs)
        data == ChartData(inputs, scenarioData)
    IN  /\ results' = BaseResult(inputs)
        /\ scenarios' = scenarioData
        /\ chartData' = data
        /\ fvCalls' = 1 + 2 + Len(scenarioData) * Len(data)

\* calculateResults, run by the effect on [inputs]
calculateResults ==
    /\ effectPending
    /\ LET validationErrors == validateInputs(inputs)
       IN  /\ errors' = validationErrors
           /\ IF DOMAIN validationErrors # {} THEN ClearDerived ELSE ComputeDerived
    /\ effectPending' = FALSE
    /\ firstRun' = IF firstRun = <<>>
                      THEN << [inputs |-> inputs, results |-> results',
                               scenarios |-> scenarios', chartData |-> chartData',
                               errors |-> errors', otherInputsSince |-> FALSE] >>
                   ELSE IF inputs # firstRun[1].inputs
                      THEN << [firstRun[1] EXCEPT !.otherInputsSince = TRUE] >>
                   ELSE firstRun
    /\ UNCHANGED inputs

Next ==
    \/ \E field \in Fields : \E value \in Typed(field) :
          handleInputChange(field, value)
    \/ calculateResults

Spec == Init /\ [][Next]_vars

(***************************************************************************)
(* Properties                                                              *)
(***************************************************************************)
\* calculateResults has finished for the current inputs.
Finished == ~effectPending

HasErrors == DOMAIN errors # {}

\* A defined, finite, non-negative number
Money(x) == x.k = "num" /\ x.m >= 0

\* C1: whenever calculateResults finishes with a non-empty error mapping, the
\* derived state is cleared (results null, scenarios and chartData empty) and
\* the run made no call of calculateFutureValue; no earlier result survives.
C1_ErrorsClearDerived ==
    (Finished /\ HasErrors) =>
        /\ results = Null
        /\ scenarios = <<>>
        /\ chartData = <<>>
        /\ fvCalls = 0

\* A run has finished with errors.  The initial inputs are valid and every
\* behaviour starts with their run, so a result was computed before.
C1_Witness ==
    /\ Finished
    /\ HasErrors
    /\ firstRun # <<>>
    /\ firstRun[1].results # Null
    /\ results = Null

\* C2 (as claimed): after a run on validated inputs every monetary output is
\* a defined, finite, non-negative number.
C2_MoneyDefined ==
    (Finished /\ ~HasErrors) =>
        /\ Money(results.projected_value)
        /\ Money(results.monthly_income)
        /\ \A i \in DOMAIN scenarios :
              Money(scenarios[i].projectedValue) /\ Money(scenarios[i].monthlyIncome)
        /\ \A j \in DOMAIN chartData : \A i \in DOMAIN scenarios :
              Money(chartData[j][scenarios[i].name])

\* P + C*12*t
Linear(inp) ==
    Add(Num(inp.currentBalance),
        Mul(Mul(Num(inp.monthlyContribution), Lit(12)), Num(inp.yearsToRetirement)))

\* C3 (as claimed): a future value computed with an annual rate of exactly 0
\* is P + C*12*t.
C3_ZeroRateLinear ==
    (Finished /\ ~HasErrors) =>
        \A i \in DOMAIN scenarios :
            scenarios[i].rate = 0 => scenarios[i].projectedValue = Linear(inputs)

\* C4: after a run, either there are errors and results, scenarios and
\* chartData are all absent, or there are none and all three are present:
\* a result, three scenarios each with projectedValue and monthlyIncome, and
\* a non-empty series.
C4_NoPartialResult ==
    Finished =>
        \/ /\ HasErrors
           /\ results = Null
           /\ scenarios = <<>>
           /\ chartData = <<>>
        \/ /\ ~HasErrors
           /\ results # Null
           /\ Len(scenarios) = 3
           /\ \A i \in DOMAIN scenarios :
                 {"projectedValue", "monthlyIncome"} \subseteq DOMAIN scenarios[i]
           /\ Len(chartData) > 0

\* A full result set stands after runs on other inputs have come before.
C4_Witness ==
    /\ Finished
    /\ ~HasErrors
    /\ results # Null
    /\ Len(scenarios) = 3
    /\ Len(chartData) > 0
    /\ firstRun # <<>>
    /\ firstRun[1].otherInputsSince

\* C5 (as claimed): expectedReturn has an error entry exactly when its value
\* lies outside the closed interval [-20, 50].
C5_ReturnRange ==
    Finished =>
        (("expectedReturn" \in DOMAIN errors)
            <=> (inputs.expectedReturn < 0 - 2000 \/ inputs.expectedReturn > 5000))

\* The initial inputs with one field replaced
Alone(field, value) ==
    [[currentBalance |-> 5000000, monthlyContribution |-> 100000,
      expectedReturn |-> 700, yearsToRetirement |-> 3000] EXCEPT ![field] = value]

\* The value of the field is rejected when every other field is valid.
RejectedAlone(field, value) == field \in DOMAIN validateInputs(Alone(field, value))

\* C6: validation is not short-circuited.  The entry of a field depends on
\* that field's value only (it is there exactly when the value is rejected
\* with every other field valid, and is that field's message), so inputs that
\* break k rules get exactly the k entries; a negative balance with
\* yearsToRetirement = 0 gets both.
C6_RulesIndependent ==
    Finished =>
        /\ \A field \in Fields :
              /\ (field \in DOMAIN errors) <=> RejectedAlone(field, inputs[field])
              /\ field \in DOMAIN errors => errors[field] = Message(field)
        /\ DOMAIN errors \subseteq Fields
        /\ Cardinality(DOMAIN errors)
              = Cardinality({field \in Fields : RejectedAlone(field, inputs[field])})
        /\ (inputs.currentBalance = 0 - 100 /\ inputs.yearsToRetirement = 0)
              => {"currentBalance", "yearsToRetirement"} \subseteq DOMAIN errors

\* Two rules are broken at once and exactly their two entries are reported.
C6_Witness ==
    /\ Finished
    /\ inputs.currentBalance = 0 - 100
    /\ inputs.yearsToRetirement = 0
    /\ DOMAIN errors = {"currentBalance", "yearsToRetirement"}

\* C7: for valid inputs the scenario list is Conservative, Base Case,
\* Optimistic, in this order, with rates max(base - 2, 1), base and base + 2.
C7_ScenarioOrderAndRates ==
    (Finished /\ ~HasErrors) =>
        /\ Len(scenarios) = 3
        /\ scenarios[1].name = "Conservative"
        /\ scenarios[2].name = "Base Case"
        /\ scenarios[3].name = "Optimistic"
        /\ scenarios[1].rate = (IF inputs.expectedReturn - 200 >= 100
                                   THEN inputs.expectedReturn - 200 ELSE 100)
        /\ scenarios[2].rate = inputs.expectedReturn
        /\ scenarios[3].rate = inputs.expectedReturn + 200

\* Scenarios of a valid input whose conservative rate is held up by the floor
C7_Witness ==
    /\ Finished
    /\ ~HasErrors
    /\ Len(scenarios) = 3
    /\ inputs.expectedReturn < 300
    /\ scenarios[1].rate = 100
    /\ scenarios[3].rate = inputs.expectedReturn + 200

\* C8 (as claimed): for valid inputs the series has min(yearsToRetirement, 40)
\* + 1 points, for the years 0, 1, ..., min(yearsToRetirement, 40), each with
\* a balance per scenario, and every projectedValue uses the full
\* yearsToRetirement.
C8_SeriesLength ==
    (Finished /\ ~HasErrors) =>
        /\ 100 * Len(chartData) = Min(inputs.yearsToRetirement, 4000) + 100
        /\ \A j \in DOMAIN chartData :
              /\ chartData[j]["year"] = j - 1
              /\ DOMAIN chartData[j]
                    = {"year", "Conservative", "Base Case", "Optimistic"}
        /\ 100 * chartData[Len(chartData)]["year"] = Min(inputs.yearsToRetirement, 4000)
        /\ \A i \in DOMAIN scenarios :
              scenarios[i].projectedValue
                 = calculateFutureValue(inputs.currentBalance, inputs.monthlyContribution,
                                        scenarios[i].rate, inputs.yearsToRetirement)

\* C8 (amended): for valid inputs the series has floor(min(yearsToRetirement,
\* 40)) + 1 points, for the years 0, 1, ..., floor(min(yearsToRetirement, 40)),
\* each with a balance per scenario (min(yearsToRetirement, 40) + 1 points for
\* a whole number of years, 41 for 70), and every projectedValue uses the
\* full yearsToRetirement.
C8_SeriesLengthFloor ==
    (Finished /\ ~HasErrors) =>
        /\ Len(chartData) = Min(inputs.yearsToRetirement, 4000) \div 100 + 1
        /\ \A j \in DOMAIN chartData :
              /\ chartData[j]["year"] = j - 1
              /\ DOMAIN chartData[j]
                    = {"year", "Conservative", "Base Case", "Optimistic"}
        /\ (inputs.yearsToRetirement % 100 = 0
               => 100 * Len(chartData) = Min(inputs.yearsToRetirement, 4000) + 100)
        /\ (inputs.yearsToRetirement = 7000 => Len(chartData) = 41)
        /\ \A i \in DOMAIN scenarios :
              scenarios[i].projectedValue
                 = calculateFutureValue(inputs.currentBalance, inputs.monthlyContribution,
                                        scenarios[i].rate, inputs.yearsToRetirement)

\* 70 years to retirement: 41 points, the last for year 40, and a base
\* projectedValue that is the value after 70 years, not after 40.
C8_Witness ==
    /\ Finished
    /\ ~HasErrors
    /\ inputs.yearsToRetirement = 7000
    /\ Len(chartData) = 41
    /\ chartData[41]["year"] = 40
    /\ scenarios[2].projectedValue
          # calculateFutureValue(inputs.currentBalance, inputs.monthlyContribution,
                                 scenarios[2].rate, 4000)

\* C9: the derived state of a run depends on the current inputs only.  Every
\* run on the inputs of the first run, whatever was processed in between,
\* leaves the results, scenarios, chart series and errors of the first run;
\* and after every run, on any inputs and from any earlier state, the derived
\* state is the one computed from the current inputs alone.
C9_SameInputsSameState ==
    Finished =>
        /\ (firstRun # <<>> /\ inputs = firstRun[1].inputs) =>
              /\ results = firstRun[1].results
              /\ scenarios = firstRun[1].scenarios
              /\ chartData = firstRun[1].chartData
              /\ errors = firstRun[1].errors
        /\ errors = validateInputs(inputs)
        /\ HasErrors => (results = Null /\ scenarios = <<>> /\ chartData = <<>>)
        /\ ~HasErrors =>
              /\ results = BaseResult(inputs)
              /\ scenarios = ScenarioData(inputs)
              /\ chartData = ChartData(inputs, ScenarioData(inputs))

\* The inputs of the first run have been run again after other inputs.
C9_Witness ==
    /\ Finished
    /\ firstRun # <<>>
    /\ firstRun[1].otherInputsSince
    /\ inputs = firstRun[1].inputs
    /\ results = firstRun[1].results
    /\ chartData = firstRun[1].chartData

\* C10 (as claimed): a future value over 0 years is the principal, so the
\* year-0 point of the series is the rounded currentBalance for each scenario.
C10_YearZeroIsBalance ==
    (Finished /\ ~HasErrors) =>
        \A i \in DOMAIN scenarios :
            /\ calculateFutureValue(inputs.currentBalance, inputs.monthlyContribution,
                                    scenarios[i].rate, 0) = Num(inputs.currentBalance)
            /\ chartData[1][scenarios[i].name] = Round(Num(inputs.currentBalance))

\* x <= y for two numbers
Leq(x, y) ==
    LET d == Sub(y, x) IN x.k = "num" /\ y.k = "num" /\ d.k = "num" /\ d.m >= 0

\* lo <= x <= hi for whole numbers lo and hi
Between(x, lo, hi) == Leq(Lit(lo), x) /\ Leq(x, Lit(hi))

\* The inputs of the end-to-end example: 50000, 1000 a month, 7%, 30 years
ExampleInputs ==
    [currentBalance |-> 5000000, monthlyContribution |-> 100000,
     expectedReturn |-> 700, yearsToRetirement |-> 3000]

\* C11 (as claimed): for the example inputs the base projectedValue lies
\* between 1,323,000 and 1,324,000 and its monthlyIncome between 8,000 and
\* 8,100.
C11_ExampleRanges ==
    (Finished /\ inputs = ExampleInputs) =>
        /\ Between(results.projected_value, 1323000, 1324000)
        /\ Between(results.monthly_income, 8000, 8100)
        /\ Between(scenarios[2].projectedValue, 1323000, 1324000)
        /\ Between(scenarios[2].monthlyIncome, 8000, 8100)

\* C11 (amended): for the example inputs the base projectedValue (monthly
\* compounding over 360 periods) lies between 1,625,000 and 1,626,000 and the
\* monthlyIncome of the 4% / 240-payment annuity on it between 9,800 and 9,900.
C11_ExampleRangesAmended ==
    (Finished /\ inputs = ExampleInputs) =>
        /\ ~HasErrors
        /\ Between(results.projected_value, 1625000, 1626000)
        /\ Between(results.monthly_income, 9800, 9900)
        /\ Between(scenarios[2].projectedValue, 1625000, 1626000)
        /\ Between(scenarios[2].monthlyIncome, 9800, 9900)

\* The example inputs have been run, and run again after other inputs.
C11_Witness ==
    /\ Finished
    /\ inputs = ExampleInputs
    /\ results # Null
    /\ scenarios[2].name = "Base Case"
    /\ firstRun # <<>>
    /\ firstRun[1].otherInputsSince

\* C12 (as claimed): for valid inputs the rates are ordered as the labels
\* suggest, Conservative <= Base Case <= Optimistic.
C12_RatesOrdered ==
    (Finished /\ ~HasErrors) =>
        /\ scenarios[1].rate <= scenarios[2].rate
        /\ scenarios[2].rate <= scenarios[3].rate

\* C12 (amended): for valid inputs Base Case <= Optimistic always, and
\* Conservative <= Base Case exactly when the expected return is at least 1%:
\* below 1% the floor lifts the conservative rate to 1%, above the base rate,
\* and above the optimistic rate too when the expected return is below -1%.
C12_RatesOrderedFromOne ==
    (Finished /\ ~HasErrors) =>
        /\ scenarios[2].rate <= scenarios[3].rate
        /\ (scenarios[1].rate <= scenarios[2].rate) <=> (inputs.expectedReturn >= 100)
        /\ (scenarios[1].rate <= scenarios[3].rate)
              <=> (inputs.expectedReturn >= 0 - 100)
        /\ inputs.expectedReturn < 100 => scenarios[1].rate = 100

\* A valid input of at least 1% whose conservative rate is held up by the
\* floor and still does not exceed the base rate
C12_Witness ==
    /\ Finished
    /\ ~HasErrors
    /\ inputs.expectedReturn >= 100
    /\ inputs.expectedReturn < 300
    /\ scenarios[1].rate = 100
    /\ scenarios[1].rate <= scenarios[2].rate
    /\ scenarios[2].rate <= scenarios[3].rate

=============================================================================
